---- MODULE Spec2Model ----
(***************************************************************************)
(* State-machine model of crypto_tools:                                    *)
(*   - the sponge PRNG engine SPRNG<U> of src/prng/sprng.rs               *)
(*     (Setup = SPRNG::new, Refresh, Next), with U a native unsigned       *)
(*     word of UBits bits;                                                 *)
(*   - the four-register word Ux4<U> of src/utilities/ustates.rs, with     *)
(*     registers of WordBits bits.                                         *)
(* Widths are scaled down from u8/u64; all arithmetic keeps its width.     *)
(***************************************************************************)
EXTENDS Integers, Sequences, FiniteSets, TLC

\* ------------------------------------------------------------------ bounds
\* bit width of the engine's native word type U
UBits == 3
\* largest squeeze depth t passed to Setup
MaxT == 2
\* largest seed length s passed to Setup
MaxS == 3
\* longest input vector passed to one Refresh call
MaxInputs == 2
\* most inputs absorbed between two Next calls
MaxAbsorbed == 3
\* bit width of one register of Ux4<U>
WordBits == 2
\* most operations applied to the Ux4 accumulator
MaxOps == 2

\* ------------------------------------------------- native word type U
UMod == 2 ^ UBits
UMax == UMod - 1

RECURSIVE BitAnd(_, _)
\* U: BitAnd, bit by bit
BitAnd(a, b) ==
    IF a = 0 \/ b = 0 THEN 0
    ELSE ((a % 2) * (b % 2)) + (2 * BitAnd(a \div 2, b \div 2))

RECURSIVE BitXor(_, _)
\* U: BitXor, bit by bit
BitXor(a, b) ==
    IF a = 0 THEN b
    ELSE IF b = 0 THEN a
    ELSE ((a + b) % 2) + (2 * BitXor(a \div 2, b \div 2))

RECURSIVE BitOr(_, _)
\* U: BitOr, bit by bit
BitOr(a, b) ==
    IF a = 0 THEN b
    ELSE IF b = 0 THEN a
    ELSE (IF a % 2 = 1 \/ b % 2 = 1 THEN 1 ELSE 0) + (2 * BitOr(a \div 2, b \div 2))

\* U: Not, on a word of `bits` bits
BitNot(a, bits) == (2 ^ bits - 1) - a

\* 1_u8.into() / 0_u8.into()
FromU8(b) == b % UMod

\* the permutation a caller supplies as `func: fn(U) -> U`
PermIds == {"affine"}

\* (self.perm)(x): the supplied permutation, a bijection on U
Perm(id, x) == (5 * x + 3) % UMod

\* the values rng.gen::<U>() is drawn from
RandDraws == {UMax - 1, (2 ^ (UBits - 1)) + 1}

\* the values a caller passes as inputs to refresh
InputVals == {0, UMax - 1}


\* ------------------------------------------------ state of the program
VARIABLES
    phase,      \* "Uninitialized" | "Ready" | "Failed" (new panicked) | "Panicked"
    t,          \* SPRNG.t: number of permutation rounds in next
    s,          \* SPRNG.s: length of the seed vector
    j,          \* SPRNG.j: seed iterator
    mask,       \* SPRNG.mask: mask extracting the outer part
    perm,       \* SPRNG.perm: the permutation function (its identity)
    seed,       \* SPRNG.seed: the seed vector (seed[i+1] is the code's seed[i])
    state,      \* SPRNG.state: state of the sponge
    last,       \* the last call: its arguments, the fields before it, its result
    absorbed,   \* inputs absorbed since new or the last next
    operands,   \* Ux4 calculator: the three operand values a, b, c
    acc,        \* Ux4 calculator: the running value
    applied     \* Ux4 calculator: the operations applied to acc so far

engine == <<phase, t, s, j, mask, perm, seed, state, last, absorbed>>
wide == <<operands, acc, applied>>
vars == <<phase, t, s, j, mask, perm, seed, state, last, absorbed,
          operands, acc, applied>>

\* the record kept of a call
Call(op, args, result, msg, out, state0, j0) ==
    [op |-> op, args |-> args, result |-> result, msg |-> msg, out |-> out,
     state0 |-> state0, j0 |-> j0]

NoCall == Call("none", <<>>, "Ok", "", 0, 0, 0)

\* ------------------------------------------------------------ SPRNG::new
\* the parameter vectors a caller passes to new
ParamVecs ==
    {<<n, r, tt, ss>> : n \in {UBits}, r \in 0 .. (UBits + 1),
                        tt \in 0 .. MaxT, ss \in 0 .. MaxS}
    \cup {<<>>, <<UBits, 1, 1>>, <<UBits, 1, 1, 2, 0>>}

\* `mask << r` on a native word with overflow checks on panics when r >= bits
ShlOverflows(r) == r >= UBits

\* `mask << r` without overflow checks: the shift count is taken modulo the width
WrappingShl(x, r) == (x * (2 ^ (r % UBits))) % UMod

\* mask = (1 << r) - 1
GenMask(r) == (WrappingShl(FromU8(1), r) + UMod - FromU8(1)) % UMod

\* the seed vector one element short
GenSeedShort(draws, m) == [i \in 1 .. (Len(draws) - 1) |-> BitAnd(draws[i], m)]

\* seed_vec.push(rng.gen::<U>() & mask), s times
GenSeed(draws, m) == [i \in DOMAIN draws |-> BitAnd(draws[i], m)]

\* the initial state left unmasked
GenStateUnmasked(draw, m) == BitOr(FromU8(0), draw)

\* state = 0 | (rng.gen::<U>() & !mask)
GenState(draw, m) == BitOr(FromU8(0), BitAnd(draw, BitNot(m, UBits)))

\* the cursor value new starts from and next resets to
CursorStart == 1

\* new panics: no engine is built
NewPanics(params, msg) ==
    /\ phase' = "Failed"
    /\ last' = Call("new", params, "Panic", msg, 0, 0, 0)
    /\ UNCHANGED <<t, s, j, mask, perm, seed, state, absorbed>>

\* SPRNG::new(params, func); overflowChecks is the build's overflow-checks setting
SPRNG_new(params, func, overflowChecks) ==
    /\ phase = "Uninitialized"
    /\ IF Len(params) # 4
         THEN NewPanics(params, "wrong number of parameters")
       ELSE IF ~(params[2] <= params[1])
         THEN NewPanics(params, "rate r must be less than or equal to n")
       ELSE IF ~(params[4] > 1)
         THEN NewPanics(params, "seed size s must be greater than 1")
       ELSE IF overflowChecks /\ ShlOverflows(params[2])
         THEN NewPanics(params, "attempt to shift left with overflow")
       ELSE \E draws \in [1 .. params[4] -> RandDraws], draw \in RandDraws :
            LET m == GenMask(params[2]) IN
            /\ phase' = "Ready"
            /\ t' = params[3]
            /\ s' = params[4]
            /\ j' = CursorStart
            /\ mask' = m
            /\ perm' = func
            /\ seed' = GenSeed(draws, m)
            /\ state' = GenState(draw, m)
            /\ absorbed' = 0
            /\ last' = Call("new", params, "Ok", "", 0, 0, 0)
    /\ UNCHANGED wide

\* -------------------------------------------------------- SPRNG::refresh
\* the input vectors a caller passes to refresh
RECURSIVE SeqsUpTo(_, _)
SeqsUpTo(S, n) ==
    IF n = 0 THEN {<<>>}
    ELSE LET shorter == SeqsUpTo(S, n - 1) IN
         shorter \cup {Append(q, x) : q \in shorter, x \in S}

InputVecs == SeqsUpTo(InputVals, MaxInputs)

\* one absorption: (self.perm)(self.state ^ ((inputs[i] ^ self.seed[self.j]) & self.mask))
Absorb(st, x, jj) ==
    Perm(perm, BitXor(st, BitAnd(BitXor(x, seed[jj + 1]), mask)))

\* the cursor left where it was
AdvanceCursorStuck(jj) == jj % s

\* self.j = (self.j + 1) % self.s
AdvanceCursor(jj) == (jj + 1) % s

\* the loop started at index 1
RefreshFirstOne == 0 + 1

\* the first index of the loop `for i in 0..l`
RefreshFirst == 0

RECURSIVE RefreshLoop(_, _, _, _)
\* for i in 0..l { state = ...; j = ... }: the fields after iterations i..l-1
RefreshLoop(st, jj, i, inputs) ==
    IF i >= Len(inputs) THEN [state |-> st, j |-> jj]
    ELSE RefreshLoop(Absorb(st, inputs[i + 1], jj), AdvanceCursor(jj), i + 1, inputs)

RECURSIVE RefreshReads(_, _, _)
\* the cursor values at which iterations i..l-1 of the loop read self.seed[self.j]
RefreshReads(jj, i, inputs) ==
    IF i >= Len(inputs) THEN <<>>
    ELSE <<jj>> \o RefreshReads(AdvanceCursor(jj), i + 1, inputs)

\* PRNG::refresh(&mut self, inputs)
SPRNG_refresh(inputs) ==
    /\ phase = "Ready"
    /\ absorbed + Len(inputs) <= MaxAbsorbed
    /\ IF ~(Len(inputs) > 0)
         THEN /\ phase' = "Panicked"
              /\ last' = Call("refresh", inputs, "Panic", "no inputs provided", 0, state, j)
              /\ UNCHANGED <<state, j, absorbed>>
       ELSE LET after == RefreshLoop(state, j, RefreshFirst, inputs) IN
              /\ state' = after.state
              /\ j' = after.j
              /\ absorbed' = absorbed + Len(inputs)
              /\ last' = Call("refresh", inputs, "Ok", "", 0, state, j)
              /\ UNCHANGED phase
    /\ UNCHANGED <<t, s, mask, perm, seed>>
    /\ UNCHANGED wide

\* ----------------------------------------------------------- SPRNG::next
\* next returning the whole permuted state
OuterPartUnmasked(st) == st

\* let R = self.state & self.mask
OuterPart(st) == BitAnd(st, mask)

RECURSIVE TruncateLoopNoMask(_, _)
\* the loop without the zeroing of the rate bits
TruncateLoopNoMask(st, i) ==
    IF i >= t THEN st ELSE TruncateLoopNoMask(Perm(perm, st), i + 1)

RECURSIVE TruncateLoop(_, _)
\* for _ in 1..self.t { state = perm(state); state = state & !mask }
TruncateLoop(st, i) ==
    IF i >= t THEN st
    ELSE TruncateLoop(BitAnd(Perm(perm, st), BitNot(mask, UBits)), i + 1)

RECURSIVE TruncateRounds(_)
\* the number of iterations of for _ in 1..self.t, each calling perm once
TruncateRounds(i) == IF i >= t THEN 0 ELSE 1 + TruncateRounds(i + 1)

\* the calls of perm one next makes: line 107, then one per loop iteration
NextPermCalls == 1 + TruncateRounds(1)

\* next that also rotates the seed vector
SPRNG_nextRotatesSeed ==
    /\ phase = "Ready"
    /\ LET permuted == Perm(perm, state) IN
         /\ state' = TruncateLoop(permuted, 1)
         /\ last' = Call("next", <<>>, "Ok", "", OuterPart(permuted), state, j)
    /\ j' = CursorStart
    /\ absorbed' = 0
    /\ seed' = Tail(seed) \o <<Head(seed)>>
    /\ UNCHANGED <<phase, t, s, mask, perm>>
    /\ UNCHANGED wide

\* PRNG::next(&mut self)
SPRNG_next ==
    /\ phase = "Ready"
    /\ LET permuted == Perm(perm, state) IN
         /\ state' = TruncateLoop(permuted, 1)
         /\ last' = Call("next", <<>>, "Ok", "", OuterPart(permuted), state, j)
    /\ j' = CursorStart
    /\ absorbed' = 0
    /\ UNCHANGED <<phase, t, s, mask, perm, seed>>
    /\ UNCHANGED wide

\* ----------------------------------------- gt2016.rs: SPRNG::refresh
\* setup and next of gt2016.rs are line for line new and next of sprng.rs;
\* its refresh differs.

\* the first index of the loop `for i in 1..l`
GT_first == 1

\* the input read at index i
GT_inputSame(inputs, i) == inputs[i + 1]

\* inputs[i-1], the input iteration i reads
GT_input(inputs, i) == inputs[(i - 1) + 1]

RECURSIVE GT_refreshLoop(_, _, _, _)
\* for i in 1..l { state = perm(state ^ ((inputs[i-1] ^ seed[j]) & mask)); j = ... }
GT_refreshLoop(st, jj, i, inputs) ==
    IF i >= Len(inputs) THEN [state |-> st, j |-> jj, count |-> 0]
    ELSE LET rest == GT_refreshLoop(Absorb(st, GT_input(inputs, i), jj),
                                    AdvanceCursor(jj), i + 1, inputs) IN
         [rest EXCEPT !.count = @ + 1]

\* PRNG::refresh(&mut self, inputs) of gt2016.rs
GT_refresh(inputs) ==
    /\ phase = "Ready"
    /\ absorbed + Len(inputs) <= MaxAbsorbed
    /\ LET after == GT_refreshLoop(state, j, GT_first, inputs) IN
         /\ state' = after.state
         /\ j' = after.j
         /\ absorbed' = absorbed + after.count
         /\ last' = Call("refresh", inputs, "Ok", "", 0, state, j)
    /\ UNCHANGED <<phase, t, s, mask, perm, seed>>
    /\ UNCHANGED wide

\* ------------------------------------------------------------- Ux4<U>
\* pub struct Ux4<U>([U; 4]): the number of registers
Registers == 4

WMod == 2 ^ WordBits
WMax == WMod - 1

\* Ux4::zero()
Ux4_zero == [i \in 1 .. Registers |-> 0]

\* Ux4::from(item: u8): zero, then register 0 set to item
Ux4_from(item) == [Ux4_zero EXCEPT ![1] = item % WMod]

\* impl Not for Ux4: register by register
Ux4_not(a) == [i \in 1 .. Registers |-> BitNot(a[i], WordBits)]

\* Wrapping(x) + Wrapping(y) on one register
WrappingAdd(x, y) == (x + y) % WMod

\* the carry tested against the left operand only
CarryOutLeft(sum, x, y) == IF sum < x THEN 1 ELSE 0

\* carry = if sum < self.0[i] || sum < rhs.0[i] { 1 } else { 0 }
CarryOut(sum, x, y) == IF sum < x \/ sum < y THEN 1 ELSE 0

RECURSIVE AddLoop(_, _, _, _, _)
\* for i in 0..4 { sum = a[i] + b[i] + carry; result[i] = sum; carry = ... }
AddLoop(a, b, i, carry, result) ==
    IF i >= Registers THEN result
    ELSE LET sum == WrappingAdd(WrappingAdd(a[i + 1], b[i + 1]), carry) IN
         AddLoop(a, b, i + 1, CarryOut(sum, a[i + 1], b[i + 1]),
                 [result EXCEPT ![i + 1] = sum])

\* impl Add for Ux4
Ux4_add(a, b) == AddLoop(a, b, 0, 0, Ux4_zero)

\* impl Sub for Ux4: self + ((!rhs) + Ux4([1, 0, 0, 0]))
Ux4_sub(a, b) == Ux4_add(a, Ux4_add(Ux4_not(b), <<1, 0, 0, 0>>))

\* the low bit taken as the carry
ShlCarryLow(x) == x % 2

\* let new_carry = result.0[i] >> (bits_per_unit - 1)
ShlCarry(x) == x \div (2 ^ (WordBits - 1))

\* result.0[i] = (result.0[i] << 1) + carry
ShlOne(x, carry) == ((x * 2) % WMod) + carry

RECURSIVE ShlRegisters(_, _, _)
\* for i in 0..4 { new_carry = ...; result.0[i] = ...; carry = new_carry }
ShlRegisters(a, i, carry) ==
    IF i >= Registers THEN a
    ELSE ShlRegisters([a EXCEPT ![i + 1] = ShlOne(a[i + 1], carry)], i + 1,
                      ShlCarry(a[i + 1]))

RECURSIVE ShlBits(_, _)
\* for _ in 0..shift { let mut carry = 0; ... }
ShlBits(a, n) ==
    IF n = 0 THEN a ELSE ShlBits(ShlRegisters(a, 0, 0), n - 1)

\* impl Shl<usize> for Ux4
Ux4_shl(a, shift) == ShlBits(a, shift)

\* the register values the operands are drawn from
WordSamples == {0, 1, WMax}

\* the operand triples (a, b, c) handed to the operators
OperandTriples ==
    {<<a, b, c>> : a \in [1 .. Registers -> WordSamples],
                   b \in [1 .. Registers -> {0, WMax}] \cup {Ux4_from(1)},
                   c \in {Ux4_from(1), [i \in 1 .. Registers |-> WMax]}}

\* acc = acc + operands[k]
Op_add(k) ==
    /\ Len(applied) < MaxOps
    /\ acc' = Ux4_add(acc, operands[k])
    /\ applied' = Append(applied, <<"add", k>>)
    /\ UNCHANGED operands
    /\ UNCHANGED engine

\* acc = acc - operands[k]
Op_sub(k) ==
    /\ Len(applied) < MaxOps
    /\ acc' = Ux4_sub(acc, operands[k])
    /\ applied' = Append(applied, <<"sub", k>>)
    /\ UNCHANGED operands
    /\ UNCHANGED engine

\* the register values the shifted operand is drawn from
ShlSamples == {0, 1, 2 ^ (WordBits - 1), WMax}

\* the shift counts handed to <<
ShiftCounts ==
    (0 .. (WordBits + 1)) \cup {(Registers * WordBits) - 1, Registers * WordBits}

\* acc = acc << k
Op_shl(k) ==
    /\ Len(applied) < MaxOps
    /\ acc' = Ux4_shl(acc, k)
    /\ applied' = Append(applied, <<"shl", k>>)
    /\ UNCHANGED operands
    /\ UNCHANGED engine

\* ------------------------------------------------------- specification
EngineInit ==
    /\ phase = "Uninitialized"
    /\ t = 0 /\ s = 0 /\ j = 0 /\ mask = 0
    /\ perm = "none" /\ seed = <<>> /\ state = 0
    /\ last = NoCall
    /\ absorbed = 0

WideIdle == operands = <<>> /\ acc = <<>> /\ applied = <<>>

Init == EngineInit /\ WideIdle

Next ==
    \/ \E params \in ParamVecs, func \in PermIds, overflowChecks \in BOOLEAN :
          SPRNG_new(params, func, overflowChecks)
    \/ \E inputs \in InputVecs : SPRNG_refresh(inputs)
    \/ SPRNG_next

Spec == Init /\ [][Next]_vars

\* the Ux4 operators applied to operands drawn from OperandTriples
WideInit ==
    /\ EngineInit
    /\ operands \in OperandTriples
    /\ acc = operands[1]
    /\ applied = <<>>

WideNext ==
    \/ \E k \in 2 .. 3 : Op_add(k)
    \/ \E k \in 2 .. 3 : Op_sub(k)

WideSpec == WideInit /\ [][WideNext]_vars

\* the shift of Ux4 applied to one operand
ShlInit ==
    /\ EngineInit
    /\ operands \in {<<a>> : a \in [1 .. Registers -> ShlSamples]}
    /\ acc = operands[1]
    /\ applied = <<>>

ShlNext == \E k \in ShiftCounts : Op_shl(k)

ShlSpec == ShlInit /\ [][ShlNext]_vars

\* the realization of gt2016.rs
GT_Next ==
    \/ \E params \in ParamVecs, func \in PermIds, overflowChecks \in BOOLEAN :
          SPRNG_new(params, func, overflowChecks)
    \/ \E inputs \in InputVecs : GT_refresh(inputs)
    \/ SPRNG_next

GT_Spec == Init /\ [][GT_Next]_vars


\* ---------------------------------------------------------------- claims
\* the fields of the engine exist (new returned Ok)
Built == phase \in {"Ready", "Panicked"}

\* C1: the value returned by next has no bit set outside the rate mask:
\* (output AND NOT mask) = 0.
NextOutputInRate ==
    (last.op = "next" /\ last.result = "Ok")
        => BitAnd(last.out, BitNot(mask, UBits)) = 0

\* a next whose permuted state had capacity bits set and whose output is not zero
NextOutputInRateWitness ==
    /\ last.op = "next"
    /\ last.out # 0
    /\ BitAnd(Perm(perm, last.state0), BitNot(mask, UBits)) # 0

\* C2: after k inputs absorbed since j was 1 (no next in between),
\* j = (1 + k) mod s; and right after any next, j = 1.
CursorCycling ==
    /\ Built => j = (1 + absorbed) % s
    /\ (last.op = "next" /\ last.result = "Ok") => j = 1

\* a next called when the cursor had wrapped to 0 after s - 1 absorbed inputs
CursorCyclingWitness ==
    /\ last.op = "next"
    /\ s = 3
    /\ last.j0 = 0
    /\ j = 1

RECURSIVE FoldAbsorb(_, _, _)
\* the left fold of  state <- perm(state XOR ((x XOR seed[j]) AND mask)),
\* j <- (j + 1) mod s  over the inputs xs, first input first
FoldAbsorb(st, jj, xs) ==
    IF xs = <<>> THEN <<st, jj>>
    ELSE FoldAbsorb(Perm(perm, BitXor(st, BitAnd(BitXor(Head(xs), seed[jj + 1]), mask))),
                    (jj + 1) % s, Tail(xs))

\* C3: refresh with a non-empty input vector absorbs every input in order
\* from index 0 (the state is the left fold over the inputs) and returns Ok.
RefreshAbsorbsAll ==
    (last.op = "refresh" /\ Len(last.args) > 0)
        => /\ last.result = "Ok"
           /\ <<state, j>> = FoldAbsorb(last.state0, last.j0, last.args)

\* a refresh of two different inputs under a mask that lets them through
RefreshAbsorbsAllWitness ==
    /\ last.op = "refresh"
    /\ Len(last.args) = 2
    /\ last.args[1] # last.args[2]
    /\ mask # 0
    /\ state # Perm(perm, Perm(perm, last.state0))

\* C4: refresh with an empty input vector returns a usage error as a result
\* value and changes neither state nor j.
EmptyRefreshReturnsErr ==
    (last.op = "refresh" /\ Len(last.args) = 0)
        => /\ last.result = "Err"
           /\ state = last.state0
           /\ j = last.j0

\* the parameter vectors the preconditions of new reject
BadParams(params) ==
    \/ Len(params) # 4
    \/ params[2] > params[1]
    \/ params[4] <= 1

\* C5: new fails and builds no engine when params has not exactly 4
\* elements, or r > n, or s <= 1; every other parameter vector yields a
\* Ready engine.
SetupOutcome ==
    last.op = "new"
        => IF BadParams(last.args)
             THEN phase = "Failed" /\ last.result # "Ok"
             ELSE phase = "Ready" /\ last.result = "Ok"

\* C6: right after a successful new, state AND mask = 0, the seed vector
\* has exactly s elements, each with seed[i] AND NOT mask = 0, and j = 1.
AfterSetup ==
    (last.op = "new" /\ last.result = "Ok")
        => /\ BitAnd(state, mask) = 0
           /\ Len(seed) = s
           /\ s = last.args[4]
           /\ \A i \in 1 .. Len(seed) : BitAnd(seed[i], BitNot(mask, UBits)) = 0
           /\ j = 1

\* a new with r = 2, s = 3: random capacity bits and random seed bits are kept
AfterSetupWitness ==
    /\ last.op = "new"
    /\ last.result = "Ok"
    /\ last.args[2] = 2
    /\ s = 3
    /\ state # 0
    /\ \E i \in 1 .. Len(seed) : seed[i] # 0

RECURSIVE Ux4Value(_, _)
\* the integer a Ux4 stands for, register 0 least significant
Ux4Value(a, i) ==
    IF i > Registers THEN 0 ELSE a[i] + (WMod * Ux4Value(a, i + 1))

\* C8: add(a, b) is addition modulo 2^(4w): value(add(a, b)) =
\* (value(a) + value(b)) mod 2^(4w).
AddIsModular ==
    applied = << <<"add", 2>> >>
        => Ux4Value(acc, 1)
             = (Ux4Value(operands[1], 1) + Ux4Value(operands[2], 1)) % (WMod ^ Registers)

\* C9: sub(add(a, b), b) = a.
AddSubInverse ==
    applied = << <<"add", 2>>, <<"sub", 2>> >> => acc = operands[1]

\* C10: add(add(a, b), c) = add(a, add(b, c)).
AddAssociative ==
    applied = << <<"add", 2>>, <<"add", 3>> >>
        => acc = Ux4_add(operands[1], Ux4_add(operands[2], operands[3]))

\* C11: add(a, b) = add(b, a).
AddCommutative ==
    applied = << <<"add", 2>> >>
        => acc = Ux4_add(operands[2], operands[1])

\* a sum of two different operands in which a carry entered register 1
AddCommutativeWitness ==
    /\ applied = << <<"add", 2>> >>
    /\ operands[1] # operands[2]
    /\ acc[2] # WrappingAdd(operands[1][2], operands[2][2])

\* C12: shl(a, k) is multiplication by 2^k modulo 2^(4w):
\* value(shl(a, k)) = (value(a) * 2^k) mod 2^(4w); in particular shl(a, w)
\* moves register i to register i+1, zeroes register 0 and drops register 3.
ShlIsMultiplication ==
    (Len(applied) = 1 /\ applied[1][1] = "shl")
        => LET a == operands[1]
               k == applied[1][2] IN
           /\ Ux4Value(acc, 1) = (Ux4Value(a, 1) * (2 ^ k)) % (WMod ^ Registers)
           /\ k = WordBits => acc = <<0, a[1], a[2], a[3]>>

\* the all-ones value shifted by one register width
ShlIsMultiplicationWitness ==
    /\ applied = << <<"shl", WordBits>> >>
    /\ operands[1] = [i \in 1 .. Registers |-> WMax]
    /\ acc = <<0, WMax, WMax, WMax>>

\* C13: after every next on an engine with t >= 1 the rate bits of the
\* state are zero: state AND mask = 0.
NextScrubsRate ==
    (last.op = "next" /\ last.result = "Ok" /\ t >= 1)
        => BitAnd(state, mask) = 0

\* the seed indices the last refresh read, in order
LastReads == RefreshReads(last.j0, RefreshFirst, last.args)

\* C14: in every state after a successful new, 0 <= j < s, and every read of
\* seed[j] during refresh is within the bounds of the seed vector.
CursorInBounds ==
    Built
        => /\ 0 <= j /\ j < s
           /\ j < Len(seed)
           /\ (last.op = "refresh" /\ last.result = "Ok")
                => \A i \in 1 .. Len(LastReads) :
                       0 <= LastReads[i] /\ LastReads[i] < Len(seed)

\* a refresh that read the last element of a seed vector of three
CursorInBoundsWitness ==
    /\ last.op = "refresh"
    /\ last.result = "Ok"
    /\ s = 3
    /\ \E i \in 1 .. Len(LastReads) : LastReads[i] = 2

\* C15 as stated: no absorption step of refresh reads seed[0].
SeedZeroNeverRead ==
    (last.op = "refresh" /\ last.result = "Ok")
        => \A i \in 1 .. Len(LastReads) : LastReads[i] # 0

\* C15, amended: the k-th input absorbed since new or the last next reads
\* seed[k mod s]; seed[0] is skipped by the first s - 1 absorptions and read
\* by every s-th one.
SeedReadFollowsCount ==
    (last.op = "refresh" /\ last.result = "Ok")
        => \A i \in 1 .. Len(LastReads) :
               LastReads[i] = ((absorbed - Len(last.args)) + i) % s

\* a refresh on a seed vector of three whose absorption read seed[0]
SeedReadFollowsCountWitness ==
    /\ last.op = "refresh"
    /\ last.result = "Ok"
    /\ s = 3
    /\ \E i \in 1 .. Len(LastReads) : LastReads[i] = 0

\* C16: every engine built by new has t >= 1, and each next applies the
\* permutation exactly t times.
SqueezeDepth ==
    /\ Built => t >= 1
    /\ (last.op = "next" /\ last.result = "Ok") => NextPermCalls = t

RECURSIVE BlindRounds(_, _)
\* (perm, then AND NOT mask) applied n times to st; st itself when n <= 0
BlindRounds(st, n) ==
    IF n <= 0 THEN st
    ELSE BlindRounds(BitAnd(Perm(perm, st), BitNot(mask, UBits)), n - 1)

MaskIsLowBits ==
    (last.op = "new" /\ last.result = "Ok")
        => mask = (2 ^ last.args[2]) - 1

\* C19: refresh and next leave mask, seed, t, s and perm unchanged (so every
\* seed element stays within the rate mask); they change only state and j.
FrameEffect ==
    [][phase = "Ready"
         => /\ mask' = mask /\ seed' = seed /\ t' = t /\ s' = s /\ perm' = perm
            /\ \A i \in 1 .. Len(seed') : BitAnd(seed'[i], BitNot(mask', UBits)) = 0]_vars

\* a next after a refresh: state and j changed, on an engine whose seed elements differ
FrameEffectWitness ==
    /\ last.op = "next"
    /\ last.j0 # j
    /\ last.state0 # state
    /\ seed[1] # seed[2]

\* C20 as stated: refresh of gt2016.rs absorbs exactly inputs[1..l-1] in
\* order, skipping the first input; with zero or one input it absorbs
\* nothing, returns Ok and leaves state and j unchanged.
GT_AbsorbsAllButFirst ==
    last.op = "refresh"
        => /\ last.result = "Ok"
           /\ <<state, j>> = FoldAbsorb(last.state0, last.j0,
                                        IF last.args = <<>> THEN <<>> ELSE Tail(last.args))

\* C20, amended: refresh of gt2016.rs absorbs exactly inputs[0..l-2] in
\* order, skipping the last input; with zero or one input it absorbs
\* nothing, returns Ok and leaves state and j unchanged.
GT_AbsorbsAllButLast ==
    last.op = "refresh"
        => /\ last.result = "Ok"
           /\ <<state, j>> = FoldAbsorb(last.state0, last.j0,
                                        IF last.args = <<>> THEN <<>>
                                        ELSE SubSeq(last.args, 1, Len(last.args) - 1))
           /\ Len(last.args) <= 1 => (state = last.state0 /\ j = last.j0)

\* a refresh of two different inputs: dropping the first or the last gives different states
GT_AbsorbsAllButLastWitness ==
    /\ last.op = "refresh"
    /\ Len(last.args) = 2
    /\ last.args[1] # last.args[2]
    /\ j = (last.j0 + 1) % s
    /\ <<state, j>> # FoldAbsorb(last.state0, last.j0, Tail(last.args))

====
